---- MODULE Spec2Model ----
(***************************************************************************)
(* Model of the astrbot_websitetool plugin (src/main.py): the command      *)
(* parser, the six API command handlers and the help command, the JSON     *)
(* fetch with its exception handling, and the reply formatters.            *)
(*                                                                         *)
(* TLA+ strings are ASCII only, so the Chinese literals of the source are  *)
(* written as English glosses; each gloss names the source line of the     *)
(* literal it stands for.                                                  *)
(***************************************************************************)
EXTENDS Integers, Sequences, FiniteSets, TLC

VARIABLES
    plugin,     \* "running" | "terminated": the life of the SiteToolsPlugin object
    session,    \* "open" | "closed": self.session (aiohttp.ClientSession)
    pc,         \* position of the command invocation: "idle" | "awaiting" | "returned" | "raised"
    cmd,        \* the command being handled
    event,      \* its AstrMessageEvent: the message chain, a sequence of components
    requests,   \* number of session.get calls the invocation has made
    request,    \* the URL of the GET the invocation issued, or NoRequest
    fetched,    \* what the GET and the body parse produced (exception or JSON value)
    data,       \* the value safe_fetch_json returned to send_api_result
    handled,    \* number of calls of the success handler in the invocation
    reply,      \* the MessageEventResult the handler returned
    exc,        \* the exception that left the handler, or "none"
    call,       \* a direct call of a pure method: its name and its arguments
    ret         \* the result of that call

vars == <<plugin, session, pc, cmd, event, requests, request, fetched, data,
          handled, reply, exc, call, ret>>

(***************************************************************************)
(* Bounds of the model.                                                    *)
(***************************************************************************)
MaxLen == 5        \* characters in a message text
MaxMinArgs == 2    \* largest min_args passed to parse_command_args
MaxPorts == 42     \* entries in a port-scan mapping
MaxDns == 4        \* entries in a whois DNS server list

(***************************************************************************)
(* Characters and texts.  A text is a sequence of one-character strings:   *)
(* the texts drawn hold a whitespace character, a letter and a digit.      *)
(***************************************************************************)
Alphabet == {" ", "a", "4"}
Whitespace == {" "}
Digits == {"0", "1", "2", "3", "4", "5", "6", "7", "8", "9"}

RECURSIVE TextsOfLen(_)
TextsOfLen(n) ==
    IF n = 0 THEN {<<>>}
    ELSE {Append(t, c) : t \in TextsOfLen(n - 1), c \in Alphabet}

Texts == UNION {TextsOfLen(n) : n \in 0..MaxLen}

(***************************************************************************)
(* Python str methods used by parse_command_args.                          *)
(***************************************************************************)
RECURSIVE lstrip(_)
lstrip(s) ==
    IF s = <<>> THEN <<>>
    ELSE IF Head(s) \in Whitespace THEN lstrip(Tail(s))
    ELSE s

RECURSIVE rstrip(_)
rstrip(s) ==
    IF s = <<>> THEN <<>>
    ELSE IF s[Len(s)] \in Whitespace THEN rstrip(SubSeq(s, 1, Len(s) - 1))
    ELSE s

\* str.strip()
strip(s) == rstrip(lstrip(s))

\* the longest prefix of s without whitespace
RECURSIVE FirstToken(_)
FirstToken(s) ==
    IF s = <<>> \/ Head(s) \in Whitespace THEN <<>>
    ELSE <<Head(s)>> \o FirstToken(Tail(s))

\* what follows the first n characters of s
Drop(s, n) == SubSeq(s, n + 1, Len(s))

\* str.split(): the maximal runs of non-whitespace characters, in order
RECURSIVE split(_)
split(s) ==
    LET t == lstrip(s)
        tok == FirstToken(t)
    IN  IF t = <<>> THEN <<>>
        ELSE <<tok>> \o split(Drop(t, Len(tok)))

\* str.split(maxsplit=1): the first token and, when anything but whitespace
\* follows it, the remainder with its leading whitespace removed
split_maxsplit1(s) ==
    LET t == lstrip(s)
        tok == FirstToken(t)
        rest == lstrip(Drop(t, Len(tok)))
    IN  IF t = <<>> THEN <<>>
        ELSE IF rest = <<>> THEN <<tok>>
        ELSE <<tok, rest>>

\* "".join(list of texts)
RECURSIVE join_empty(_)
join_empty(parts) ==
    IF parts = <<>> THEN <<>>
    ELSE Head(parts) \o join_empty(Tail(parts))

(***************************************************************************)
(* Message chains.                                                         *)
(***************************************************************************)
Plain(t) == [type |-> "Plain", text |-> t]
NonPlain == [type |-> "Image", text |-> <<>>]

IsPlain(component) == component.type = "Plain"

\* lines 38-42: the stripped text of every Plain component, in order
RECURSIVE text_parts(_)
text_parts(messages) ==
    IF messages = <<>> THEN <<>>
    ELSE (IF IsPlain(Head(messages)) THEN <<strip(Head(messages).text)>> ELSE <<>>)
         \o text_parts(Tail(messages))

\* line 47
full_text(messages) == join_empty(text_parts(messages))

Returned(v) == [exc |-> "none", value |-> v]
Raised(e) == [exc |-> e, value |-> <<>>]

\* parse_command_args with the length test off by one
parse_command_args_off_by_one(messages, min_args) ==
    LET parts == split_maxsplit1(full_text(messages))
    IN  IF text_parts(messages) = <<>> THEN Returned(<<>>)
        ELSE IF Len(parts) < min_args THEN Returned(<<>>)
        ELSE IF Len(parts) < 2 THEN Raised("IndexError")
        ELSE Returned(split(parts[2]))

\* lines 35-53; parts[1] of a list shorter than 2 raises IndexError
parse_command_args(messages, min_args) ==
    LET parts == split_maxsplit1(full_text(messages))
    IN  IF text_parts(messages) = <<>> THEN Returned(<<>>)
        ELSE IF Len(parts) < min_args + 1 THEN Returned(<<>>)
        ELSE IF Len(parts) < 2 THEN Raised("IndexError")
        ELSE Returned(split(parts[2]))

(***************************************************************************)
(* Message chains the model draws: no component, one component, and a      *)
(* text cut into two Plain components with or without another component    *)
(* between them.                                                           *)
(***************************************************************************)
CommandEvents == {<<Plain(t)>> : t \in Texts}

SplitEvents ==
    UNION {{<<Plain(SubSeq(t, 1, k)), Plain(Drop(t, k))>>,
            <<Plain(SubSeq(t, 1, k)), NonPlain, Plain(Drop(t, k))>>} :
           <<t, k>> \in {<<t, k>> \in Texts \X (1..MaxLen) : k < Len(t)}}

Events == {<<>>, <<NonPlain>>} \cup CommandEvents \cup SplitEvents

NoCall == [fn |-> "none"]
NoReturn == [exc |-> "pending", value |-> <<>>]

(***************************************************************************)
(* JSON values as Python sees them after response.json().  An object keeps *)
(* its members in order, as a Python dict does.                            *)
(***************************************************************************)
JString(s) == [json |-> "string", val |-> s]
JNumber(n) == [json |-> "number", val |-> n]
JBool(b) == [json |-> "bool", val |-> b]
JNull == [json |-> "null", val |-> "None"]
JArray(items) == [json |-> "array", val |-> items]
JObject(members) == [json |-> "object", val |-> members]

HasKey(v, k) == \E i \in 1..Len(v.val) : v.val[i][1] = k
Member(v, k) == v.val[CHOOSE i \in 1..Len(v.val) : v.val[i][1] = k][2]

\* v[k] for a string key k: KeyError on a dict without k, TypeError on
\* anything that is no dict
getitem(v, k) ==
    IF v.json = "object"
    THEN IF HasKey(v, k) THEN Returned(Member(v, k)) ELSE Raised("KeyError")
    ELSE Raised("TypeError")

\* v[k1][k2]
getitem2(v, k1, k2) ==
    LET inner == getitem(v, k1)
    IN  IF inner.exc # "none" THEN inner ELSE getitem(inner.value, k2)

\* str(v), as an f-string formats a value
str(v) ==
    CASE v.json = "string" -> v.val
      [] v.json = "number" -> ToString(v.val)
      [] v.json = "bool" -> IF v.val THEN "True" ELSE "False"
      [] v.json = "null" -> "None"
      [] v.json = "array" -> "[...]"
      [] v.json = "object" -> "{...}"

\* bool(v), as the test of an if clause takes a value
truthy(v) ==
    CASE v.json = "string" -> v.val # ""
      [] v.json = "number" -> v.val # 0
      [] v.json = "bool" -> v.val
      [] v.json = "null" -> FALSE
      [] v.json = "array" -> v.val # <<>>
      [] v.json = "object" -> v.val # <<>>

Lit(s) == Returned(JString(s))

\* An f-string: the parts are evaluated left to right, the first exception
\* leaves the expression, otherwise the formatted parts are concatenated.
RECURSIVE fstring(_)
fstring(parts) ==
    IF parts = <<>> THEN Returned("")
    ELSE IF Head(parts).exc # "none" THEN Raised(Head(parts).exc)
    ELSE LET rest == fstring(Tail(parts))
         IN  IF rest.exc # "none" THEN rest
             ELSE Returned(str(Head(parts).value) \o rest.value)

\* sep.join(items) for a list of strings
RECURSIVE join(_, _)
join(sep, items) ==
    IF items = <<>> THEN ""
    ELSE IF Len(items) = 1 THEN items[1]
    ELSE items[1] \o sep \o join(sep, Tail(items))

\* items[:n]
slice_to(items, n) == SubSeq(items, 1, IF Len(items) < n THEN Len(items) ELSE n)

(***************************************************************************)
(* Replies.                                                                *)
(***************************************************************************)
NoReply == [chain |-> <<>>]
plain_result(text) == [chain |-> <<[type |-> "Plain", text |-> text]>>]
chain_result(components) == [chain |-> components]
Image_fromURL(url) == [type |-> "Image", url |-> url]

(***************************************************************************)
(* Literals of the source.                                                 *)
(***************************************************************************)
API_BASE_URL == "https://v2.xxapi.cn/api"
HTTP_OK == 200
HTTP_FAILED == 500
PORT_LIMIT == 20
DNS_SHOWN == 2
DEFAULT_PORT == <<"8", "0">>

MSG_UNAVAILABLE == "service unavailable"      \* the msg of line 30
MSG_INTERNAL == "internal server error"       \* the msg of line 33
MSG_UNKNOWN == "unknown error"                \* the default msg of line 71
ERROR_PREFIX == "Error: "                     \* the prefix of line 71, after its line break
NONE_MARK == "none"                           \* the placeholder of lines 197-198
ELLIPSIS == "..."                             \* line 195

HELP_TEXT == "\nSite tools help:\n\n/sitehelp\n/tcping <host>\n/ping <url>\n/siteno <url>\n/whois <domain>\n/port <ip>\n/site <url>"
USAGE_TCPING == "Pass the ip or domain to tcping, without http or https!\nExample: /tcping bing.com\nExample: /tcping bing.com 443"
USAGE_PORT_NUMBER == "The port must be a number!\nExample: /tcping bing.com 443"
USAGE_PING == "Enter the domain to test!\nExample: /ping bing.com"
USAGE_SITENO == "Enter the url to test, with http(s)!\nExample: /siteno https://www.bing.com"
USAGE_WHOIS == "Enter the domain to query!\nExample: /whois bing.com"
USAGE_PORT == "Enter the IP address!\nExample: /port 8.8.8.8"
USAGE_SITE == "Enter the url, with http(s)!\nExample: /site https://www.bing.com"

(***************************************************************************)
(* int(s) for a text s of the alphabet: the decimal value of a non-empty   *)
(* run of digits, ValueError otherwise.                                    *)
(***************************************************************************)
DigitChars == <<"0", "1", "2", "3", "4", "5", "6", "7", "8", "9">>
DigitValue(c) == (CHOOSE i \in 1..Len(DigitChars) : DigitChars[i] = c) - 1

RECURSIVE DecimalValue(_)
DecimalValue(s) ==
    IF s = <<>> THEN 0
    ELSE 10 * DecimalValue(SubSeq(s, 1, Len(s) - 1)) + DigitValue(s[Len(s)])

int(s) ==
    IF s # <<>> /\ \A i \in 1..Len(s) : s[i] \in Digits
    THEN Returned(DecimalValue(s))
    ELSE Raised("ValueError")

(***************************************************************************)
(* The handlers up to their await.  A handler either returns a reply at    *)
(* once or calls send_api_result, which builds the URL (lines 63-64) and   *)
(* awaits safe_fetch_json (line 67).                                       *)
(***************************************************************************)
NoRequest == [endpoint |-> "none"]
ReplyNow(text) == [kind |-> "reply", result |-> plain_result(text), url |-> NoRequest]
\* lines 63-64: base/endpoint?k=v&...
send_api_result_url(endpoint, params) ==
    [kind |-> "request", result |-> NoReply,
     url |-> [base |-> API_BASE_URL, endpoint |-> endpoint, query |-> params]]

\* lines 73-94
show_help(messages) == ReplyNow(HELP_TEXT)

\* check_tcping forwarding the port as it was typed
check_tcping_unchecked(messages) ==
    LET args == parse_command_args(messages, 1).value
    IN  IF args = <<>> THEN ReplyNow(USAGE_TCPING)
        ELSE send_api_result_url("tcping",
                 <<<<"address", args[1]>>,
                   <<"port", IF Len(args) > 1 THEN args[2] ELSE DEFAULT_PORT>>>>)

\* lines 96-118
check_tcping(messages) ==
    LET args == parse_command_args(messages, 1).value
        host == args[1]
        port == int(IF Len(args) > 1 THEN args[2] ELSE DEFAULT_PORT)
    IN  IF args = <<>> THEN ReplyNow(USAGE_TCPING)
        ELSE IF port.exc = "ValueError" THEN ReplyNow(USAGE_PORT_NUMBER)
        ELSE send_api_result_url("tcping", <<<<"address", host>>, <<"port", port.value>>>>)

\* check_ping asking for two arguments
check_ping_two_args(messages) ==
    LET args == parse_command_args(messages, 1).value
    IN  IF Len(args) < 2 THEN ReplyNow(USAGE_PING)
        ELSE send_api_result_url("ping", <<<<"url", args[1]>>>>)

\* lines 120-134
check_ping(messages) ==
    LET args == parse_command_args(messages, 1).value
    IN  IF args = <<>> THEN ReplyNow(USAGE_PING)
        ELSE send_api_result_url("ping", <<<<"url", args[1]>>>>)

\* lines 136-150
check_latency(messages) ==
    LET args == parse_command_args(messages, 1).value
    IN  IF args = <<>> THEN ReplyNow(USAGE_SITENO)
        ELSE send_api_result_url("speed", <<<<"url", args[1]>>>>)

\* lines 152-162
query_whois(messages) ==
    LET args == parse_command_args(messages, 1).value
    IN  IF args = <<>> THEN ReplyNow(USAGE_WHOIS)
        ELSE send_api_result_url("whois", <<<<"domain", args[1]>>>>)

\* lines 172-182
scan_ports(messages) ==
    LET args == parse_command_args(messages, 1).value
    IN  IF args = <<>> THEN ReplyNow(USAGE_PORT)
        ELSE send_api_result_url("portscan", <<<<"address", args[1]>>>>)

\* lines 200-210
capture_site(messages) ==
    LET args == parse_command_args(messages, 1).value
    IN  IF args = <<>> THEN ReplyNow(USAGE_SITE)
        ELSE send_api_result_url("screenshot", <<<<"url", args[1]>>>>)

(***************************************************************************)
(* safe_fetch_json.  The GET, raise_for_status and response.json() of      *)
(* lines 25-27 either raise or yield the parsed body.  The exceptions:     *)
(*   ClientConnectorError  the connection failed (refused, DNS, TLS)       *)
(*   ServerTimeoutError    a connect or socket-read timeout                *)
(*   TimeoutError          asyncio.TimeoutError, the session's total       *)
(*                         timeout, the one the default ClientSession of   *)
(*                         line 20 sets                                    *)
(*   ClientResponseError   raise_for_status() on a status of 400 or more   *)
(*   ContentTypeError      response.json() on a body not sent as JSON      *)
(*   JSONDecodeError       response.json() on a body that is not JSON      *)
(***************************************************************************)
TransportExceptions ==
    {"ClientConnectorError", "ServerTimeoutError", "TimeoutError", "ClientResponseError"}
ParseExceptions == {"ContentTypeError", "JSONDecodeError"}

\* the subclasses of aiohttp.ClientError among them (line 28)
ClientError ==
    {"ClientConnectorError", "ServerTimeoutError", "ClientResponseError", "ContentTypeError"}

NoFetch == [kind |-> "none"]
FetchRaised(e) == [kind |-> "raise", exc |-> e]
FetchJson(v) == [kind |-> "json", body |-> v]

Envelope(code, msg) == JObject(<<<<"code", JNumber(code)>>, <<"msg", JString(msg)>>>>)

\* lines 22-33
safe_fetch_json(outcome) ==
    IF outcome.kind = "json" THEN outcome.body
    ELSE IF outcome.exc \in ClientError THEN Envelope(HTTP_FAILED, MSG_UNAVAILABLE)
    ELSE Envelope(HTTP_FAILED, MSG_INTERNAL)

(***************************************************************************)
(* The success handlers (the lambdas of the handlers).                     *)
(***************************************************************************)
AsPlainResult(text) ==
    IF text.exc # "none" THEN text ELSE Returned(plain_result(text.value))

\* lines 115-117
tcping_success(d) ==
    AsPlainResult(fstring(<<Lit("\nStatus: "), getitem(d, "msg"),
                            Lit("\nAddress: "), getitem2(d, "data", "address"),
                            Lit("\nLatency: "), getitem2(d, "data", "ping"),
                            Lit("\nPort: "), getitem2(d, "data", "port")>>))

\* lines 131-133
ping_success(d) ==
    AsPlainResult(fstring(<<Lit("\nStatus: "), getitem(d, "msg"),
                            Lit("\nLatency: "), getitem2(d, "data", "time"),
                            Lit("\nIP: "), getitem2(d, "data", "server")>>))

\* lines 147-149
speed_success(d) ==
    AsPlainResult(fstring(<<Lit("\nStatus: "), getitem(d, "msg"),
                            Lit("\nLatency: "), getitem(d, "data"), Lit("ms")>>))

\* ', '.join(v[:3])
whois_dns_three(v) ==
    IF v.exc # "none" THEN v
    ELSE IF v.value.json # "array" THEN Raised("TypeError")
    ELSE IF \E i \in 1..Len(slice_to(v.value.val, 3)) : v.value.val[i].json # "string"
         THEN Raised("TypeError")
    ELSE Lit(join(", ", [i \in 1..Len(slice_to(v.value.val, 3)) |-> v.value.val[i].val]))

\* line 167: ', '.join(v[:2]) for a list v; join raises TypeError on an item
\* that is no string, and None or a number cannot be sliced
whois_dns(v) ==
    IF v.exc # "none" THEN v
    ELSE IF v.value.json # "array" THEN Raised("TypeError")
    ELSE IF \E i \in 1..Len(slice_to(v.value.val, DNS_SHOWN)) : v.value.val[i].json # "string"
         THEN Raised("TypeError")
    ELSE Lit(join(", ", [i \in 1..Len(slice_to(v.value.val, DNS_SHOWN)) |-> v.value.val[i].val]))

\* lines 163-169
whois_success(d) ==
    AsPlainResult(fstring(<<Lit("\nDomain: "), getitem2(d, "data", "Domain Name"),
                            Lit("\nRegistrar: "), getitem2(d, "data", "Sponsoring Registrar"),
                            Lit("\nRegistrant: "), getitem2(d, "data", "Registrant"),
                            Lit("\nDNS: "), whois_dns(getitem2(d, "data", "DNS Serve")),
                            Lit("\nValid: "), getitem2(d, "data", "Registration Time"),
                            Lit(" to "), getitem2(d, "data", "Expiration Time")>>))

\* the keys of the mapping whose status is open (or is not), in mapping order
RECURSIVE ports_where(_, _)
ports_where(members, open) ==
    IF members = <<>> THEN <<>>
    ELSE (IF truthy(Head(members)[2]) = open THEN <<Head(members)[1]>> ELSE <<>>)
         \o ports_where(Tail(members), open)

\* line 190
open_ports(port_data) == ports_where(port_data.val, TRUE)
\* line 191
closed_ports(port_data) == ports_where(port_data.val, FALSE)

\* truncate cutting a list of exactly PORT_LIMIT ports too
truncate_at_limit(ports) ==
    IF Len(ports) >= PORT_LIMIT THEN SubSeq(ports, 1, PORT_LIMIT) \o <<ELLIPSIS>> ELSE ports

\* lines 194-195
truncate(ports) ==
    IF Len(ports) > PORT_LIMIT THEN SubSeq(ports, 1, PORT_LIMIT) \o <<ELLIPSIS>> ELSE ports

\* s or '<none>'
or_none(text) == IF text = "" THEN NONE_MARK ELSE text

\* lines 188-198; .items() of anything but a dict raises AttributeError
_format_port_scan(port_data) ==
    IF port_data.json # "object" THEN Raised("AttributeError")
    ELSE Returned("Open ports: " \o or_none(join(" | ", truncate(open_ports(port_data))))
                  \o "\nClosed ports: "
                  \o or_none(join(" | ", truncate(closed_ports(port_data)))))

\* lines 183-185
portscan_success(d) ==
    LET port_data == getitem(d, "data")
    IN  IF port_data.exc # "none" THEN port_data
        ELSE AsPlainResult(_format_port_scan(port_data.value))

\* lines 211-214
screenshot_success(d) ==
    LET text == fstring(<<Lit("Screenshot ok: "), getitem(d, "msg"), Lit("\n")>>)
        url == getitem(d, "data")
    IN  IF text.exc # "none" THEN text
        ELSE IF url.exc # "none" THEN url
        ELSE Returned(chain_result(<<[type |-> "Plain", text |-> text.value],
                                     Image_fromURL(url.value)>>))

success_handler(endpoint, d) ==
    CASE endpoint = "tcping" -> tcping_success(d)
      [] endpoint = "ping" -> ping_success(d)
      [] endpoint = "speed" -> speed_success(d)
      [] endpoint = "whois" -> whois_success(d)
      [] endpoint = "portscan" -> portscan_success(d)
      [] endpoint = "screenshot" -> screenshot_success(d)

\* data.get(key, default) of a dict
dict_get(d, key, default) == IF HasKey(d, key) THEN Member(d, key) ELSE default

IsOk(d) ==
    /\ HasKey(d, "code")
    /\ Member(d, "code").json = "number"
    /\ Member(d, "code").val = HTTP_OK

Outcome(e, r, n) == [exc |-> e, reply |-> r, handled |-> n]

\* send_api_result showing the message without a default
send_api_result_no_default(endpoint, d) ==
    IF d.json # "object" THEN Outcome("AttributeError", NoReply, 0)
    ELSE IF IsOk(d)
    THEN LET r == success_handler(endpoint, d)
         IN  IF r.exc # "none" THEN Outcome(r.exc, NoReply, 1)
             ELSE Outcome("none", r.value, 1)
    ELSE Outcome("none", plain_result("\n" \o ERROR_PREFIX \o str(dict_get(d, "msg", JNull))), 0)

\* lines 68-71, after the await of line 67; .get of anything but a dict
\* raises AttributeError
send_api_result(endpoint, d) ==
    IF d.json # "object" THEN Outcome("AttributeError", NoReply, 0)
    ELSE IF IsOk(d)
    THEN LET r == success_handler(endpoint, d)
         IN  IF r.exc # "none" THEN Outcome(r.exc, NoReply, 1)
             ELSE Outcome("none", r.value, 1)
    ELSE Outcome("none",
                 plain_result("\n" \o ERROR_PREFIX \o str(dict_get(d, "msg", JString(MSG_UNKNOWN)))),
                 0)

(***************************************************************************)
(* What the API may answer.                                                *)
(***************************************************************************)
DnsNames == {"ns1", "ns2", "ns3"}

RECURSIVE DnsListsOfLen(_)
DnsListsOfLen(n) ==
    IF n = 0 THEN {<<>>}
    ELSE {Append(l, JString(d)) : l \in DnsListsOfLen(n - 1), d \in DnsNames}

DnsLists == UNION {DnsListsOfLen(n) : n \in 0..MaxDns}

WhoisData(dns) ==
    JObject(<<<<"Domain Name", JString("bing.com")>>,
              <<"Sponsoring Registrar", JString("MarkMonitor")>>,
              <<"Registrant", JString("Microsoft")>>,
              <<"DNS Serve", JArray(dns)>>,
              <<"Registration Time", JString("1996-01-29")>>,
              <<"Expiration Time", JString("2026-01-29")>>>>)

\* A port-scan mapping of n ports: the ports at positions a+1..b are closed,
\* the others open; the labels run downwards, so that the mapping order is
\* not the order of the labels.
PortLabel(i) == ToString(1000 - i)
PortData(n, a, b) ==
    JObject([i \in 1..n |-> <<PortLabel(i), JBool(i <= a \/ i > b)>>])

PortScans ==
    {PortData(n, ab[1], ab[2]) :
        <<n, ab>> \in {<<n, ab>> \in (0..MaxPorts) \X ((0..MaxPorts) \X (0..MaxPorts)) :
                          ab[1] <= ab[2] /\ ab[2] <= n}}

GoodData(endpoint) ==
    CASE endpoint = "tcping" ->
            JObject(<<<<"address", JString("bing.com")>>, <<"ping", JString("23ms")>>,
                      <<"port", JNumber(80)>>>>)
      [] endpoint = "ping" ->
            JObject(<<<<"time", JString("23ms")>>, <<"server", JString("13.107.21.200")>>>>)
      [] endpoint = "speed" -> JNumber(35)
      [] endpoint = "whois" ->
            WhoisData(<<JString("ns1"), JString("ns2"), JString("ns3"), JString("ns1")>>)
      [] endpoint = "portscan" -> PortData(3, 1, 2)
      [] endpoint = "screenshot" -> JString("https://cdn.xxapi.cn/shot.png")

DataValues(endpoint) == {GoodData(endpoint), JObject(<<>>), JNull}

\* An envelope: each of code, msg and data may be missing.
Envelopes(endpoint) ==
    {JObject(c \o m \o d) :
        c \in {<<>>, <<<<"code", JNumber(HTTP_OK)>>>>, <<<<"code", JNumber(404)>>>>},
        m \in {<<>>, <<<<"msg", JString("not found")>>>>},
        d \in {<<>>} \cup {<<<<"data", v>>>> : v \in DataValues(endpoint)}}

FetchOutcomes(endpoint) ==
    {FetchRaised(e) : e \in TransportExceptions \cup ParseExceptions}
    \cup {FetchJson(JArray(<<>>))}
    \cup {FetchJson(v) : v \in Envelopes(endpoint)}

(***************************************************************************)
(* The plugin: one command invocation at a time, from the command to the   *)
(* reply or the exception the framework gets.                              *)
(***************************************************************************)
Idle ==
    /\ pc = "idle"
    /\ cmd = "none"
    /\ event = <<>>
    /\ requests = 0
    /\ request = NoRequest
    /\ fetched = NoFetch
    /\ data = JNull
    /\ handled = 0
    /\ reply = NoReply
    /\ exc = "none"

\* lines 18-20: __init__ opens the session
Init ==
    /\ plugin = "running"
    /\ session = "open"
    /\ Idle
    /\ call = NoCall
    /\ ret = NoReturn

\* The framework calls a handler while the plugin is loaded.
CanHandle == plugin = "running" /\ pc = "idle"

\* A handler runs to its return or to the await of line 67, where the GET
\* of line 25 is issued on self.session.
Handle(c, e, step) ==
    /\ cmd' = c
    /\ event' = e
    /\ IF step.kind = "reply"
       THEN /\ pc' = "returned"
            /\ reply' = step.result
            /\ UNCHANGED <<requests, request>>
       ELSE /\ pc' = "awaiting"
            /\ requests' = requests + 1
            /\ request' = step.url
            /\ UNCHANGED reply
    /\ UNCHANGED <<plugin, session, fetched, data, handled, exc, call, ret>>

ShowHelp == CanHandle /\ \E e \in CommandEvents : Handle("sitehelp", e, show_help(e))
CheckTcping == CanHandle /\ \E e \in CommandEvents : Handle("tcping", e, check_tcping(e))
CheckPing == CanHandle /\ \E e \in CommandEvents : Handle("ping", e, check_ping(e))
CheckLatency == CanHandle /\ \E e \in CommandEvents : Handle("siteno", e, check_latency(e))
QueryWhois == CanHandle /\ \E e \in CommandEvents : Handle("whois", e, query_whois(e))
ScanPorts == CanHandle /\ \E e \in CommandEvents : Handle("port", e, scan_ports(e))
CaptureSite == CanHandle /\ \E e \in CommandEvents : Handle("site", e, capture_site(e))

\* The GET ends: safe_fetch_json returns (lines 25-33) and send_api_result
\* finishes (lines 68-71); what it returns or raises is what the handler does.
Respond ==
    /\ pc = "awaiting"
    /\ \E o \in FetchOutcomes(request.endpoint) :
          LET d == safe_fetch_json(o)
              r == send_api_result(request.endpoint, d)
          IN  /\ fetched' = o
              /\ data' = d
              /\ handled' = handled + r.handled
              /\ reply' = r.reply
              /\ exc' = r.exc
              /\ pc' = IF r.exc = "none" THEN "returned" ELSE "raised"
    /\ UNCHANGED <<plugin, session, cmd, event, requests, request, call, ret>>

\* The framework takes the reply (or the exception); the invocation is over.
Deliver ==
    /\ pc \in {"returned", "raised"}
    /\ pc' = "idle"
    /\ cmd' = "none"
    /\ event' = <<>>
    /\ requests' = 0
    /\ request' = NoRequest
    /\ fetched' = NoFetch
    /\ data' = JNull
    /\ handled' = 0
    /\ reply' = NoReply
    /\ exc' = "none"
    /\ UNCHANGED <<plugin, session, call, ret>>

\* The host unloads the plugin or stops.  SiteToolsPlugin defines no
\* terminate() and no other method that closes self.session.
Terminate ==
    /\ plugin = "running"
    /\ plugin' = "terminated"
    /\ UNCHANGED <<session, pc, cmd, event, requests, request, fetched, data,
                   handled, reply, exc, call, ret>>

Next ==
    \/ ShowHelp
    \/ CheckTcping
    \/ CheckPing
    \/ CheckLatency
    \/ QueryWhois
    \/ ScanPorts
    \/ CaptureSite
    \/ Respond
    \/ Deliver
    \/ Terminate

Spec == Init /\ [][Next]_vars

(***************************************************************************)
(* Direct calls of the pure methods.                                       *)
(***************************************************************************)
ParseCalls ==
    {[fn |-> "parse_command_args", messages |-> e, min_args |-> k] :
        e \in Events, k \in 0..MaxMinArgs}

InitParse ==
    /\ plugin = "running"
    /\ session = "open"
    /\ Idle
    /\ call \in ParseCalls
    /\ ret = NoReturn

CallParseCommandArgs ==
    /\ call.fn = "parse_command_args"
    /\ ret = NoReturn
    /\ ret' = parse_command_args(call.messages, call.min_args)
    /\ UNCHANGED <<plugin, session, pc, cmd, event, requests, request, fetched,
                   data, handled, reply, exc, call>>

SpecParse == InitParse /\ [][CallParseCommandArgs]_vars

FormatCalls ==
    {[fn |-> "_format_port_scan", arg |-> p] : p \in PortScans}
    \cup {[fn |-> "whois_success", arg |-> JObject(<<<<"code", JNumber(HTTP_OK)>>,
                                                     <<"msg", JString("ok")>>,
                                                     <<"data", WhoisData(dns)>>>>)] :
             dns \in DnsLists}

InitFormat ==
    /\ plugin = "running"
    /\ session = "open"
    /\ Idle
    /\ call \in FormatCalls
    /\ ret = NoReturn

CallFormatPortScan ==
    /\ call.fn = "_format_port_scan"
    /\ ret = NoReturn
    /\ ret' = _format_port_scan(call.arg)
    /\ UNCHANGED <<plugin, session, pc, cmd, event, requests, request, fetched,
                   data, handled, reply, exc, call>>

CallWhoisSuccess ==
    /\ call.fn = "whois_success"
    /\ ret = NoReturn
    /\ ret' = whois_success(call.arg)
    /\ UNCHANGED <<plugin, session, pc, cmd, event, requests, request, fetched,
                   data, handled, reply, exc, call>>

NextFormat == CallFormatPortScan \/ CallWhoisSuccess

SpecFormat == InitFormat /\ [][NextFormat]_vars

(***************************************************************************)
(* Notions the properties are stated with.                                 *)
(***************************************************************************)
\* The whitespace-separated tokens of a text, by the places where they
\* start and end.
TokenStarts(s) ==
    {i \in 1..Len(s) : s[i] \notin Whitespace /\ (i = 1 \/ s[i - 1] \in Whitespace)}
TokenEnd(s, i) ==
    CHOOSE j \in i..Len(s) :
        /\ \A k \in i..j : s[k] \notin Whitespace
        /\ j = Len(s) \/ s[j + 1] \in Whitespace
NthStart(s, n) ==
    CHOOSE i \in TokenStarts(s) : Cardinality({q \in TokenStarts(s) : q < i}) = n - 1
Tokens(s) ==
    [n \in 1..Cardinality(TokenStarts(s)) |->
        SubSeq(s, NthStart(s, n), TokenEnd(s, NthStart(s, n)))]

\* the tokens that follow the command keyword, the first token of the text
ArgsAfterCommand(s) == IF Tokens(s) = <<>> THEN <<>> ELSE Tail(Tokens(s))

Called == ret.exc # "pending"
Over == pc \in {"returned", "raised"}

\* C1: with min_args >= 1 and fewer than min_args tokens after the command
\* keyword (nothing after the command and no text at all included),
\* parse_command_args returns the empty list.
C1_TooFewArgsGiveEmptyList ==
    (/\ Called
     /\ call.min_args >= 1
     /\ Len(ArgsAfterCommand(full_text(call.messages))) < call.min_args)
    => (ret.exc = "none" /\ ret.value = <<>>)

C1_Witness ==
    /\ Called
    /\ call.min_args = 2
    /\ Len(ArgsAfterCommand(full_text(call.messages))) = 1
    /\ ret.exc = "none"
    /\ ret.value = <<>>

\* C2: for every min_args (0, 1, 2, ...), when at least min_args tokens
\* follow the command keyword, parse_command_args returns exactly those
\* tokens, in order, and raises nothing.
C2_EnoughArgsAreReturned ==
    (/\ Called
     /\ Len(ArgsAfterCommand(full_text(call.messages))) >= call.min_args)
    => (ret.exc = "none" /\ ret.value = ArgsAfterCommand(full_text(call.messages)))

(***************************************************************************)
(* The envelope send_api_result got, read member by member.                *)
(***************************************************************************)
IsEnvelope == fetched # NoFetch /\ data.json = "object"
CodeIs200 == \E i \in 1..Len(data.val) : data.val[i][1] = "code" /\ data.val[i][2].val = 200
MsgShown ==
    IF \E i \in 1..Len(data.val) : data.val[i][1] = "msg"
    THEN (data.val[CHOOSE i \in 1..Len(data.val) : data.val[i][1] = "msg"][2]).val
    ELSE MSG_UNKNOWN

\* C3 as stated: for an envelope whose code is not 200 the success handler
\* is not called and the reply text is exactly the error prefix followed by
\* the msg, "unknown error" standing for a missing msg.
C3_ErrorReplyIsPrefixThenMsg ==
    (Over /\ IsEnvelope /\ ~CodeIs200)
    => (/\ handled = 0
        /\ pc = "returned"
        /\ reply = plain_result(ERROR_PREFIX \o MsgShown))

\* C3 amended: for an envelope whose code is not 200 the success handler is
\* not called and the reply text is a line break, then the error prefix,
\* then the msg, "unknown error" standing for a missing msg.
C3_ErrorReplyIsLineBreakPrefixMsg ==
    (Over /\ IsEnvelope /\ ~CodeIs200)
    => (/\ handled = 0
        /\ pc = "returned"
        /\ reply = plain_result("\n" \o ERROR_PREFIX \o MsgShown))

C3_Witness ==
    /\ pc = "returned"
    /\ fetched.kind = "json"
    /\ data = JObject(<<<<"code", JNumber(404)>>>>)
    /\ handled = 0
    /\ reply = plain_result("\nError: unknown error")

\* C4: every command invocation ends with a reply; no exception leaves the
\* handler, whatever the fetch produced.
C4_NoFaultEscapes == pc # "raised" /\ exc = "none"

(***************************************************************************)
(* Local validation errors, read from the message text.                    *)
(***************************************************************************)
TextOf(e) == e[1].text
IsNumeral(w) == w # <<>> /\ \A i \in 1..Len(w) : w[i] \in Digits
NoArgument == cmd # "sitehelp" /\ Len(ArgsAfterCommand(TextOf(event))) = 0
BadPort ==
    /\ cmd = "tcping"
    /\ Len(ArgsAfterCommand(TextOf(event))) >= 2
    /\ ~IsNumeral(ArgsAfterCommand(TextOf(event))[2])
UsageHint ==
    CASE cmd = "tcping" -> IF NoArgument THEN USAGE_TCPING ELSE USAGE_PORT_NUMBER
      [] cmd = "ping" -> USAGE_PING
      [] cmd = "siteno" -> USAGE_SITENO
      [] cmd = "whois" -> USAGE_WHOIS
      [] cmd = "port" -> USAGE_PORT
      [] cmd = "site" -> USAGE_SITE

\* C5: an invocation with no argument token after the command, or a tcping
\* whose second argument is no integer, replies with the usage hint of the
\* command and issues no HTTP request at any point.
C5_ValidationErrorsStayLocal ==
    (pc # "idle" /\ (NoArgument \/ BadPort))
    => (/\ pc = "returned"
        /\ requests = 0
        /\ request = NoRequest
        /\ fetched = NoFetch
        /\ reply = plain_result(UsageHint))

C5_Witness ==
    /\ pc = "returned"
    /\ BadPort
    /\ requests = 0
    /\ reply = plain_result(USAGE_PORT_NUMBER)

(***************************************************************************)
(* The port lists as the mapping gives them, and how a list is shown.      *)
(***************************************************************************)
KeysWithStatus(mapping, open) ==
    LET chosen == SelectSeq(mapping.val, LAMBDA member : member[2].val = open)
    IN  [j \in 1..Len(chosen) |-> chosen[j][1]]

RECURSIVE BarJoined(_, _)
BarJoined(ports, n) ==
    IF n = 1 THEN ports[1] ELSE BarJoined(ports, n - 1) \o " | " \o ports[n]

ShownList(ports) ==
    IF ports = <<>> THEN NONE_MARK
    ELSE IF Len(ports) > 20 THEN BarJoined(ports, 20) \o " | " \o ELLIPSIS
    ELSE BarJoined(ports, Len(ports))

InList(p, ports) == \E j \in 1..Len(ports) : ports[j] = p

\* C6: _format_port_scan puts every port in exactly one of the two lists,
\* by its status; each list shows its first 20 ports at most, in mapping
\* order, followed by "..." exactly when it has more than 20, and a list
\* without ports is shown as the placeholder.
C6_PortListsPartitionedAndTruncated ==
    (Called /\ call.fn = "_format_port_scan")
    => (/\ \A i \in 1..Len(call.arg.val) :
              LET p == call.arg.val[i][1]
                  open == call.arg.val[i][2].val
              IN  /\ InList(p, open_ports(call.arg)) <=> open
                  /\ InList(p, closed_ports(call.arg)) <=> ~open
        /\ Len(open_ports(call.arg)) + Len(closed_ports(call.arg)) = Len(call.arg.val)
        /\ ret.exc = "none"
        /\ ret.value = "Open ports: " \o ShownList(KeysWithStatus(call.arg, TRUE))
                       \o "\nClosed ports: " \o ShownList(KeysWithStatus(call.arg, FALSE)))

C6_Witness ==
    /\ Called
    /\ call.fn = "_format_port_scan"
    /\ Len(KeysWithStatus(call.arg, TRUE)) > 20
    /\ Len(KeysWithStatus(call.arg, FALSE)) = 20
    /\ ret.exc = "none"

\* C7: the session opened at startup is closed exactly once at shutdown:
\* once the plugin has ended, on any path, the session is closed.
C7_SessionClosedAtShutdown == plugin = "terminated" => session = "closed"

\* C8: safe_fetch_json turns every transport failure of the GET (connection
\* failure, timeout, HTTP status) into {500, "service unavailable"} and every
\* other fault of the fetch or the body parse into {500, "internal server
\* error"}, never the other way round.
C8_FailureClassesKeptApart ==
    (Over /\ fetched.kind = "raise")
    => (/\ fetched.exc \in TransportExceptions
            => data = Envelope(500, MSG_UNAVAILABLE)
        /\ fetched.exc \in ParseExceptions
            => data = Envelope(500, MSG_INTERNAL))

\* the DNS line a whois reply must show for a DNS server list
FirstTwo(dns) ==
    CASE Len(dns) = 0 -> ""
      [] Len(dns) = 1 -> dns[1].val
      [] OTHER -> dns[1].val \o ", " \o dns[2].val

DnsOfCall == (call.arg.val[3][2]).val[4][2].val

\* C9: the DNS line of a whois success reply shows the first 2 entries of
\* the DNS server list, in order, joined by ", "; later entries never
\* appear and a shorter list is shown with the entries it has.
C9_WhoisShowsFirstTwoDns ==
    (Called /\ call.fn = "whois_success")
    => (/\ ret.exc = "none"
        /\ ret.value =
              plain_result("\nDomain: bing.com\nRegistrar: MarkMonitor\nRegistrant: Microsoft\nDNS: "
                           \o FirstTwo(DnsOfCall)
                           \o "\nValid: 1996-01-29 to 2026-01-29"))

C9_Witness ==
    /\ Called
    /\ call.fn = "whois_success"
    /\ Len(DnsOfCall) = 4
    /\ DnsOfCall[1] # DnsOfCall[2]
    /\ DnsOfCall[3] # DnsOfCall[1]
    /\ ret.exc = "none"

\* C10: an invocation issues at most one GET: exactly one when its
\* arguments pass the local validation, none for sitehelp, and none after
\* a request that failed.
C10_AtMostOneRequest ==
    pc # "idle"
    => (/\ requests <= 1
        /\ cmd = "sitehelp" => requests = 0
        /\ (cmd # "sitehelp" /\ ~NoArgument /\ ~BadPort) => requests = 1
        /\ (Over /\ fetched # NoFetch) => requests = 1)

C10_Witness ==
    /\ pc = "returned"
    /\ fetched.kind = "raise"
    /\ requests = 1
====
